---------------------------- MODULE Spec2Model ----------------------------
(***************************************************************************)
(* ManagerEngine of vnpy_datamanager (src/vnpy_datamanager/engine.py).     *)
(*                                                                         *)
(* One call of one engine operation is modelled from its entry to its      *)
(* return or to the exception it propagates.  The collaborators the engine *)
(* talks to (database, datafeed, main engine, file system) are modelled at *)
(* their call sites: what they are asked, in which order, and what they    *)
(* answer, the answer being a nondeterministic choice where the engine     *)
(* does not control it.                                                    *)
(*                                                                         *)
(* Python values are tagged records: None is [t |-> "none"], a str is      *)
(* [t |-> "str", v |-> ...], an int [t |-> "int", v |-> ...], a list       *)
(* [t |-> "list", v |-> <<...>>].                                          *)
(***************************************************************************)
EXTENDS Integers, Sequences, FiniteSets, TLC

VARIABLES
    pc,         \* position of the running call
    op,         \* the operation called
    args,       \* its arguments
    loc,        \* its local variables
    result,     \* its return value, once pc = "done"
    exc,        \* the exception it propagated, once pc = "raised"
    fault,      \* the failure a collaborator produced during the call
    database,   \* self.database: the records it holds and its capability
    dbAtCall,   \* the store as it was when the call started
    reqLog,     \* history requests issued by the call, in order
    saveLog,    \* save_bar_data / save_tick_data calls made by the call
    outFile     \* the export destination file: its lines, or no file

vars == <<pc, op, args, loc, result, exc, fault, database, dbAtCall, reqLog,
          saveLog, outFile>>

-----------------------------------------------------------------------------
(* Bounds of the model *)

MaxRows == 2        \* data rows of an import file
MaxDays == 25       \* "now", in days; download starts lie in 0..MaxDays

-----------------------------------------------------------------------------
(* Python values *)

None == [t |-> "none"]
PyStr(s) == [t |-> "str", v |-> s]
PyInt(n) == [t |-> "int", v |-> n]
PyList(xs) == [t |-> "list", v |-> xs]

Ok(v) == [ok |-> TRUE, val |-> v]
Raise(e) == [ok |-> FALSE, exc |-> e]

SeqsUpTo(S, n) == UNION {[1..k -> S] : k \in 0..n}

RECURSIVE SeqSum(_)
SeqSum(s) == IF s = <<>> THEN 0 ELSE Head(s) + SeqSum(Tail(s))

-----------------------------------------------------------------------------
(* CSV import: the file, csv.DictReader, the row conversions *)

\* the header names the caller maps the logical fields to
datetime_head == "datetime"
open_head == "open"
high_head == "high"
low_head == "low"
close_head == "close"
volume_head == "volume"
turnover_head == "turnover"
open_interest_head == "open_interest"

PriceHeads == {open_head, high_head, low_head, close_head}
RequiredHeads == {datetime_head, volume_head} \cup PriceHeads
AllHeads == RequiredHeads \cup {turnover_head, open_interest_head}

\* the header rows of the files imported
Headers ==
    { AllHeads,
      AllHeads \ {turnover_head},
      AllHeads \ {open_interest_head},
      AllHeads \ {turnover_head, open_interest_head},
      AllHeads \ {volume_head},
      AllHeads \ {datetime_head} }

\* A data line, as the cells under each header name.  None is the restval
\* csv.DictReader fills in for a line that has fewer cells than the header.
Line(dt, price, vol, turn, oi) ==
    [h \in AllHeads |->
        CASE h = datetime_head -> dt
          [] h \in PriceHeads -> price
          [] h = volume_head -> vol
          [] h = turnover_head -> turn
          [] h = open_interest_head -> oi]

Lines ==
    LET one == PyStr("1")
        two == PyStr("2")
    IN  { Line(PyStr("2020-01-01"), one, one, two, one),
          Line(PyStr("2020-01-02"), two, two, one, two),
          Line(PyStr("20200103"), one, two, two, two),
          Line(PyStr("01/01/2020"), one, one, one, one),
          Line(PyStr("2020-01-01"), one, PyStr("x"), one, one),
          Line(PyStr("2020-01-02"), one, one, PyStr("x"), one),
          Line(PyStr("2020-01-01"), None, None, None, None) }

Formats == {"", "%Y%m%d"}

Files == [fieldnames : Headers, rows : SeqsUpTo(Lines, MaxRows)]

\* csv.DictReader: the i-th dict it yields, keyed by the header's names
ReaderItem(file, i) == [h \in file.fieldnames |-> file.rows[i][h]]

\* item[key]
GetItem(item, key) ==
    IF key \in DOMAIN item THEN Ok(item[key]) ELSE Raise("KeyError")

\* item.get(key): no default given, None for a missing key
GetOrZeroMut(item, key) ==
    IF key \in DOMAIN item THEN item[key] ELSE None

\* item.get(key, 0)
GetOrZero(item, key) ==
    IF key \in DOMAIN item THEN item[key] ELSE PyInt(0)

\* datetime.fromisoformat(s): the naive wall-clock time, as a day number
FromIsoFormat(s) ==
    CASE s.t # "str" -> Raise("TypeError")
      [] s.t = "str" /\ s.v = "2020-01-01" -> Ok(1)
      [] s.t = "str" /\ s.v = "2020-01-02" -> Ok(2)
      [] OTHER -> Raise("ValueError")

\* datetime.strptime(s, "%Y%m%d")
Strptime(s, fmt) ==
    CASE s.t # "str" -> Raise("TypeError")
      [] s.t = "str" /\ s.v = "20200103" -> Ok(3)
      [] OTHER -> Raise("ValueError")

\* lines 60-63
ParseDatetime(s, fmt) ==
    IF fmt # "" THEN Strptime(s, fmt) ELSE FromIsoFormat(s)

\* tz.localize(dt): the wall clock is kept and the zone attached
Localize(tz, wall) == [wall |-> wall, tz |-> tz]

\* float(x)
Float(x) ==
    CASE x.t = "int" -> Ok(x.v)
      [] x.t = "none" -> Raise("TypeError")
      [] x.t = "str" /\ x.v = "1" -> Ok(1)
      [] x.t = "str" /\ x.v = "2" -> Ok(2)
      [] OTHER -> Raise("ValueError")

\* the first failure among a sequence of evaluations, in evaluation order
RECURSIVE FirstFailure(_)
FirstFailure(rs) ==
    IF rs = <<>> THEN Ok(0)
    ELSE IF Head(rs).ok THEN FirstFailure(Tail(rs)) ELSE Head(rs)

BarData(symbol, exchange, dt, interval, vol, o, h, l, c, turn, oi) ==
    [symbol |-> symbol, exchange |-> exchange, datetime |-> dt,
     interval |-> interval, volume |-> vol, open_price |-> o,
     high_price |-> h, low_price |-> l, close_price |-> c,
     turnover |-> turn, open_interest |-> oi, gateway_name |-> "DB"]

\* lines 60-82: one row turned into a bar, or the exception raised on the way
RowToBar(item, a) ==
    LET dtCell == GetItem(item, datetime_head)
        dt == IF dtCell.ok THEN ParseDatetime(dtCell.val, a.datetime_format)
              ELSE dtCell
        turnover == GetOrZero(item, turnover_head)
        open_interest == GetOrZero(item, open_interest_head)
        num(h) == LET c == GetItem(item, h) IN IF c.ok THEN Float(c.val) ELSE c
        volume == num(volume_head)
        open == num(open_head)
        high == num(high_head)
        low == num(low_head)
        close == num(close_head)
        turn == Float(turnover)
        oi == Float(open_interest)
        fail == FirstFailure(<<dt, volume, open, high, low, close, turn, oi>>)
    IN  IF fail.ok
        THEN Ok(BarData(a.symbol, a.exchange, Localize(a.tz_name, dt.val),
                        a.interval, volume.val, open.val, high.val, low.val,
                        close.val, turn.val, oi.val))
        ELSE fail

\* line 88: "if not start" (a datetime is never falsy)
NotStart(start) == start = None

\* the start overwritten by every row
NextStartMut(start, bar) == bar.datetime

\* lines 88-89
NextStart(start, bar) == IF NotStart(start) THEN bar.datetime ELSE start

-----------------------------------------------------------------------------
(* The store (self.database) and the records it may hold before the call *)

TZ == "Asia/Shanghai"

StoredBar(day, price) ==
    BarData("rb2401", "SHFE", Localize(TZ, day), "1m", price, price, price,
            price, price, 0, 0)

\* a record whose datetime is missing cannot be serialised
BrokenBar == BarData("rb2401", "SHFE", None, "1m", 1, 1, 1, 1, 1, 0, 0)

TickData(symbol, exchange, day, last_price, localtime) ==
    [symbol |-> symbol, exchange |-> exchange,
     datetime |-> Localize(TZ, day),
     open_price |-> last_price, high_price |-> last_price,
     low_price |-> last_price, pre_close |-> last_price,
     volume |-> 1, turnover |-> 0, open_interest |-> 0,
     last_price |-> last_price, last_volume |-> 1,
     limit_up |-> last_price + 1, limit_down |-> last_price - 1,
     bid_price_1 |-> last_price, bid_price_2 |-> 0, bid_price_3 |-> 0,
     bid_price_4 |-> 0, bid_price_5 |-> 0,
     ask_price_1 |-> last_price, ask_price_2 |-> 0, ask_price_3 |-> 0,
     ask_price_4 |-> 0, ask_price_5 |-> 0,
     bid_volume_1 |-> 1, bid_volume_2 |-> 0, bid_volume_3 |-> 0,
     bid_volume_4 |-> 0, bid_volume_5 |-> 0,
     ask_volume_1 |-> 1, ask_volume_2 |-> 0, ask_volume_3 |-> 0,
     ask_volume_4 |-> 0, ask_volume_5 |-> 0,
     localtime |-> localtime]

FeedTick(day) == TickData("rb2401", "SHFE", day, 1, None)

StoredBars ==
    { <<>>,
      <<StoredBar(5, 1)>>,
      <<StoredBar(5, 1), StoredBar(6, 2)>>,
      <<StoredBar(6, 2), StoredBar(5, 1)>>,
      <<StoredBar(5, 1), BrokenBar>> }

StoredTicks ==
    { <<>>,
      <<TickData("rb2401", "SHFE", 5, 1, Localize(TZ, 5)), FeedTick(6)>>,
      <<FeedTick(6), FeedTick(5)>> }

\* has_tick_overview: whether the store object has a get_tick_overview method
Databases ==
    [bars : StoredBars, ticks : StoredTicks, has_tick_overview : BOOLEAN]

\* database.save_bar_data(bars)
SaveBarData(db, bars) == [db EXCEPT !.bars = @ \o bars]

\* database.save_tick_data(ticks)
SaveTickData(db, ticks) == [db EXCEPT !.ticks = @ \o ticks]

\* database.get_tick_overview(): one coverage range per instrument held
DbTickOverview(db) ==
    IF db.ticks = <<>> THEN <<>>
    ELSE <<[symbol |-> db.ticks[1].symbol, exchange |-> db.ticks[1].exchange,
            count |-> Len(db.ticks)]>>

-----------------------------------------------------------------------------
(* Init: an engine after construction, no call running *)

NoLocals == [none |-> TRUE]

Init ==
    /\ pc = "idle"
    /\ op = "none"
    /\ args = NoLocals
    /\ loc = NoLocals
    /\ result = <<>>
    /\ exc = "none"
    /\ fault = "none"
    /\ database \in Databases
    /\ dbAtCall = database
    /\ reqLog = <<>>
    /\ saveLog = <<>>
    /\ outFile = None

Return(value) == /\ pc' = "done"
                 /\ result' = <<value>>
                 /\ exc' = exc

Propagate(e) == /\ pc' = "raised"
                /\ exc' = e
                /\ result' = result

-----------------------------------------------------------------------------
(* import_data_from_csv, lines 31-96 *)

Unbound == [t |-> "unbound"]

\* lines 49-57: the file read, the reader and the locals set up (the file is
\* readable and tz_name names a zone)
ImportCall ==
    /\ pc = "idle"
    /\ \E file \in Files, fmt \in Formats :
          args' = [file |-> file, symbol |-> "rb2401", exchange |-> "SHFE",
                   interval |-> "1m", tz_name |-> TZ, datetime_format |-> fmt]
    /\ op' = "import_data_from_csv"
    /\ loc' = [i |-> 0, bars |-> <<>>, start |-> None, count |-> 0,
               bar |-> Unbound]
    /\ pc' = "import_row"
    /\ UNCHANGED <<result, exc, fault, database, reqLog,
                   saveLog, outFile, dbAtCall>>

\* every row saved as soon as it is parsed
ImportRowMut ==
    /\ pc = "import_row"
    /\ loc.i < Len(args.file.rows)
    /\ LET r == RowToBar(ReaderItem(args.file, loc.i + 1), args)
       IN  IF r.ok
           THEN /\ loc' = [loc EXCEPT !.i = @ + 1,
                                      !.bars = Append(@, r.val),
                                      !.count = @ + 1,
                                      !.start = NextStart(@, r.val),
                                      !.bar = r.val]
                /\ database' = SaveBarData(database, <<r.val>>)
                /\ UNCHANGED <<pc, exc, result>>
           ELSE /\ Propagate(r.exc)
                /\ UNCHANGED <<loc, database>>
    /\ UNCHANGED <<op, args, fault, reqLog, saveLog, outFile, dbAtCall>>

\* lines 59-89: one iteration of the loop over the reader
ImportRow ==
    /\ pc = "import_row"
    /\ loc.i < Len(args.file.rows)
    /\ LET r == RowToBar(ReaderItem(args.file, loc.i + 1), args)
       IN  IF r.ok
           THEN /\ loc' = [loc EXCEPT !.i = @ + 1,
                                      !.bars = Append(@, r.val),
                                      !.count = @ + 1,
                                      !.start = NextStart(@, r.val),
                                      !.bar = r.val]
                /\ UNCHANGED <<pc, exc, result>>
           ELSE /\ Propagate(r.exc)
                /\ UNCHANGED loc
    /\ UNCHANGED <<op, args, fault, database, reqLog,
                   saveLog, outFile, dbAtCall>>

\* line 91: "end = bar.datetime" once the reader is exhausted
ImportEnd ==
    /\ pc = "import_row"
    /\ loc.i = Len(args.file.rows)
    /\ IF loc.bar = Unbound
       THEN /\ Propagate("UnboundLocalError")
            /\ UNCHANGED loc
       ELSE /\ loc' = [bars |-> loc.bars, start |-> loc.start,
                       count |-> loc.count, end |-> loc.bar.datetime]
            /\ pc' = "import_save"
            /\ UNCHANGED <<exc, result>>
    /\ UNCHANGED <<op, args, fault, database, reqLog,
                   saveLog, outFile, dbAtCall>>

\* lines 94-96: the batch saved and the statistics returned
ImportSave ==
    /\ pc = "import_save"
    /\ saveLog' = Append(saveLog, [fn |-> "save_bar_data", batch |-> loc.bars])
    /\ \E stored \in BOOLEAN :
          IF stored
          THEN /\ database' = SaveBarData(database, loc.bars)
               /\ Return(<<loc.start, loc.end, loc.count>>)
               /\ UNCHANGED fault
          ELSE /\ fault' = "DatabaseError"
               /\ Propagate("DatabaseError")
               /\ UNCHANGED database
    /\ UNCHANGED <<op, args, loc, reqLog, outFile, dbAtCall>>

-----------------------------------------------------------------------------
(* output_data_to_csv, lines 98-228 *)

TICK == "tick"

Intervals == {"1m", TICK}

TickFieldnames ==
    <<"symbol", "exchange", "datetime", "open", "high", "low", "pre_close",
      "volume", "turnover", "open_interest", "last_price", "last_volume",
      "limit_up", "limit_down",
      "bid_price_1", "bid_price_2", "bid_price_3", "bid_price_4",
      "bid_price_5",
      "ask_price_1", "ask_price_2", "ask_price_3", "ask_price_4",
      "ask_price_5",
      "bid_volume_1", "bid_volume_2", "bid_volume_3", "bid_volume_4",
      "bid_volume_5",
      "ask_volume_1", "ask_volume_2", "ask_volume_3", "ask_volume_4",
      "ask_volume_5",
      "localtime">>

BarFieldnames ==
    <<"symbol", "exchange", "datetime", "open", "high", "low", "close",
      "volume", "turnover", "open_interest">>

\* dt.strftime(fmt): the wall clock as text; the zone is not written
Strftime(dt, fmt) ==
    IF dt = None THEN Raise("AttributeError")
    ELSE Ok([t |-> "str", fmt |-> fmt, wall |-> dt.wall])

\* lines 212-223: the dict written for a bar
BarRow(bar) ==
    LET dt == Strftime(bar.datetime, "%Y-%m-%d %H:%M:%S")
    IN  IF dt.ok
        THEN Ok([symbol |-> bar.symbol, exchange |-> bar.exchange,
                 datetime |-> dt.val, open |-> bar.open_price,
                 high |-> bar.high_price, low |-> bar.low_price,
                 close |-> bar.close_price, turnover |-> bar.turnover,
                 volume |-> bar.volume, open_interest |-> bar.open_interest])
        ELSE dt

\* lines 171-208: the dict written for a tick; DictWriter writes "" under
\* "localtime" when the dict has no such key
TickRow(tick) ==
    LET dt == Strftime(tick.datetime, "%Y-%m-%d %H:%M:%S.%f")
        lt == IF tick.localtime # None
              THEN Strftime(tick.localtime, "%Y-%m-%d %H:%M:%S.%f")
              ELSE Ok(PyStr(""))
    IN  IF dt.ok
        THEN Ok([symbol |-> tick.symbol,
                 exchange |-> tick.exchange,
                 datetime |-> dt.val,
                 open |-> tick.open_price,
                 high |-> tick.high_price,
                 low |-> tick.low_price,
                 pre_close |-> tick.pre_close,
                 turnover |-> tick.turnover,
                 volume |-> tick.volume,
                 open_interest |-> tick.open_interest,
                 last_price |-> tick.last_price,
                 last_volume |-> tick.last_volume,
                 limit_up |-> tick.limit_up,
                 limit_down |-> tick.limit_down,
                 bid_price_1 |-> tick.bid_price_1,
                 bid_price_2 |-> tick.bid_price_2,
                 bid_price_3 |-> tick.bid_price_3,
                 bid_price_4 |-> tick.bid_price_4,
                 bid_price_5 |-> tick.bid_price_5,
                 ask_price_1 |-> tick.ask_price_1,
                 ask_price_2 |-> tick.ask_price_2,
                 ask_price_3 |-> tick.ask_price_3,
                 ask_price_4 |-> tick.ask_price_4,
                 ask_price_5 |-> tick.ask_price_5,
                 bid_volume_1 |-> tick.bid_volume_1,
                 bid_volume_2 |-> tick.bid_volume_2,
                 bid_volume_3 |-> tick.bid_volume_3,
                 bid_volume_4 |-> tick.bid_volume_4,
                 bid_volume_5 |-> tick.bid_volume_5,
                 ask_volume_1 |-> tick.ask_volume_1,
                 ask_volume_2 |-> tick.ask_volume_2,
                 ask_volume_3 |-> tick.ask_volume_3,
                 ask_volume_4 |-> tick.ask_volume_4,
                 ask_volume_5 |-> tick.ask_volume_5,
                 localtime |-> lt.val])
        ELSE dt

\* lines 169, 210: the row for a record of the interval exported
ExportRow(interval, record) ==
    IF interval = TICK THEN TickRow(record) ELSE BarRow(record)

\* "except OSError": every file-system failure reported as False
ExportExceptMut(e) ==
    IF e \in {"PermissionError", "FileNotFoundError", "OSError"}
    THEN Return(FALSE) ELSE Propagate(e)

\* lines 164, 227-228: what the try statement does with an exception
ExportExcept(e) ==
    IF e = "PermissionError" THEN Return(FALSE) ELSE Propagate(e)

ExportCall ==
    /\ pc = "idle"
    /\ \E interval \in Intervals :
          args' = [file_path |-> "out.csv", symbol |-> "rb2401",
                   exchange |-> "SHFE", interval |-> interval,
                   start |-> 0, end |-> MaxDays]
    /\ op' = "output_data_to_csv"
    /\ loc' = NoLocals
    /\ pc' = "export_load"
    /\ UNCHANGED <<result, exc, fault, database, reqLog,
                   saveLog, outFile, dbAtCall>>

\* lines 108-162: the records loaded from the store, outside the try
ExportLoad ==
    /\ pc = "export_load"
    /\ \E loaded \in BOOLEAN :
          IF loaded
          THEN /\ loc' = [records |-> IF args.interval = TICK
                                      THEN database.ticks ELSE database.bars,
                          fieldnames |-> IF args.interval = TICK
                                         THEN TickFieldnames
                                         ELSE BarFieldnames,
                          i |-> 0]
               /\ pc' = "export_open"
               /\ UNCHANGED <<fault, exc, result>>
          ELSE /\ fault' = "DatabaseError"
               /\ Propagate("DatabaseError")
               /\ UNCHANGED loc
    /\ UNCHANGED <<op, args, database, reqLog, saveLog, outFile, dbAtCall>>

\* lines 165-167: the file opened for writing and the header written
ExportOpen ==
    /\ pc = "export_open"
    /\ \E opened \in {"ok", "PermissionError", "FileNotFoundError"} :
          IF opened = "ok"
          THEN /\ outFile' = PyList(<<loc.fieldnames>>)
               /\ pc' = "export_write"
               /\ UNCHANGED <<fault, exc, result>>
          ELSE /\ fault' = opened
               /\ ExportExcept(opened)
               /\ UNCHANGED outFile
    /\ UNCHANGED <<op, args, loc, database, reqLog, saveLog, dbAtCall>>

\* lines 170-209, 211-224: one record written
ExportWrite ==
    /\ pc = "export_write"
    /\ loc.i < Len(loc.records)
    /\ \E written \in {"ok", "PermissionError", "OSError"} :
          LET row == ExportRow(args.interval, loc.records[loc.i + 1])
          IN  IF ~row.ok
              THEN /\ written = "ok"
                   /\ ExportExcept(row.exc)
                   /\ UNCHANGED <<fault, outFile, loc>>
              ELSE IF written = "ok"
              THEN /\ outFile' = PyList(Append(outFile.v, row.val))
                   /\ loc' = [loc EXCEPT !.i = @ + 1]
                   /\ UNCHANGED <<fault, pc, exc, result>>
              ELSE /\ fault' = written
                   /\ ExportExcept(written)
                   /\ UNCHANGED <<outFile, loc>>
    /\ UNCHANGED <<op, args, database, reqLog, saveLog, dbAtCall>>

\* line 226: every record written, the file closed
ExportDone ==
    /\ pc = "export_write"
    /\ loc.i = Len(loc.records)
    /\ Return(TRUE)
    /\ UNCHANGED <<op, args, loc, fault, database,
                   reqLog, saveLog, outFile, dbAtCall>>

-----------------------------------------------------------------------------
(* get_tick_overview, lines 234-239 *)

\* the method called without the hasattr check
TickOverviewResultMut(db) ==
    IF db.has_tick_overview THEN Ok(PyList(DbTickOverview(db)))
    ELSE Raise("AttributeError")

\* lines 236-239
TickOverviewResult(db) ==
    IF db.has_tick_overview THEN Ok(PyList(DbTickOverview(db)))
    ELSE Ok(PyList(<<>>))

GetTickOverview ==
    /\ pc = "idle"
    /\ op' = "get_tick_overview"
    /\ LET r == TickOverviewResult(database)
       IN  IF r.ok THEN Return(r.val) ELSE Propagate(r.exc)
    /\ UNCHANGED <<args, loc, fault, database, reqLog,
                   saveLog, outFile, dbAtCall>>

-----------------------------------------------------------------------------
(* download_bar_data, lines 305-339, download_tick_data, lines 341-363 *)

Now == MaxDays

HistoryRequest(symbol, exchange, interval, start, end) ==
    [symbol |-> symbol, exchange |-> exchange, interval |-> interval,
     start |-> start, end |-> end]

\* lines 315-321
BarRequest(symbol, exchange, interval, start) ==
    HistoryRequest(symbol, exchange, interval, start, Now)

\* the request ending where it starts
TickRequestMut(symbol, exchange, start) ==
    HistoryRequest(symbol, exchange, None, start, start)

\* lines 350-355
TickRequest(symbol, exchange, start) ==
    HistoryRequest(symbol, exchange, None, start, Now)

\* main_engine.get_contract(vt_symbol): no contract, or one of a gateway
Contracts ==
    { None,
      [t |-> "contract", gateway_name |-> "CTP", history_data |-> TRUE],
      [t |-> "contract", gateway_name |-> "CTP", history_data |-> FALSE] }

\* the gateway asked whenever a contract is registered
UseGatewayMut(contract) == contract # None

\* line 327: "contract and contract.history_data"
UseGateway(contract) == contract # None /\ contract.history_data

\* lines 327-333: the source the request goes to
BarSource(contract) ==
    IF UseGateway(contract) THEN "main_engine.query_history"
    ELSE "datafeed.query_bar_history"

\* "if data is not None"
TruthyMut(data) == data # None

\* lines 335, 359: "if data"
Truthy(data) == data # None /\ data.v # <<>>

\* what a source answers a bar request with
BarAnswers ==
    { None, PyList(<<>>), PyList(<<StoredBar(7, 1)>>),
      PyList(<<StoredBar(7, 1), StoredBar(8, 2)>>) }

\* the days the datafeed may hold a tick for
TickDays == {3, 13, 23}

RECURSIVE Ascending(_)
Ascending(S) ==
    IF S = {} THEN <<>>
    ELSE LET m == CHOOSE x \in S : \A y \in S : x <= y
         IN  <<m>> \o Ascending(S \ {m})

RECURSIVE MapTicks(_)
MapTicks(days) ==
    IF days = <<>> THEN <<>>
    ELSE <<FeedTick(Head(days))>> \o MapTicks(Tail(days))

\* what the datafeed answers a tick request with: None, or the ticks it holds
\* inside the requested range, in time order
TickAnswers(req) ==
    {None} \cup
    { PyList(MapTicks(Ascending(held))) :
        held \in SUBSET {d \in TickDays : req.start <= d /\ d <= req.end} }

DownloadBarCall ==
    /\ pc = "idle"
    /\ \E start \in {0, MaxDays - 1}, contract \in Contracts :
          /\ args' = [symbol |-> "rb2401", exchange |-> "SHFE",
                      interval |-> "1m", start |-> start]
          /\ loc' = [req |-> BarRequest("rb2401", "SHFE", "1m", start),
                     contract |-> contract]
    /\ op' = "download_bar_data"
    /\ pc' = "bar_query"
    /\ UNCHANGED <<result, exc, fault, database, reqLog,
                   saveLog, outFile, dbAtCall>>

\* lines 327-333: the request sent to the gateway or to the datafeed
DownloadBarQuery ==
    /\ pc = "bar_query"
    /\ reqLog' = Append(reqLog, [to |-> BarSource(loc.contract),
                                 req |-> loc.req])
    /\ \/ \E data \in BarAnswers :
             /\ loc' = [req |-> loc.req, contract |-> loc.contract,
                        data |-> data]
             /\ pc' = "bar_save"
             /\ UNCHANGED <<fault, exc, result>>
       \/ /\ fault' = "ConnectionError"
          /\ Propagate("ConnectionError")
          /\ UNCHANGED loc
    /\ UNCHANGED <<op, args, database, saveLog, outFile, dbAtCall>>

\* lines 335-339
DownloadBarSave ==
    /\ pc = "bar_save"
    /\ IF Truthy(loc.data)
       THEN /\ saveLog' = Append(saveLog, [fn |-> "save_bar_data",
                                           batch |-> loc.data.v])
            /\ \E stored \in BOOLEAN :
                  IF stored
                  THEN /\ database' = SaveBarData(database, loc.data.v)
                       /\ Return(Len(loc.data.v))
                       /\ UNCHANGED fault
                  ELSE /\ fault' = "DatabaseError"
                       /\ Propagate("DatabaseError")
                       /\ UNCHANGED database
       ELSE /\ Return(0)
            /\ UNCHANGED <<saveLog, database, fault>>
    /\ UNCHANGED <<op, args, loc, reqLog, outFile, dbAtCall>>

DownloadTickCall ==
    /\ pc = "idle"
    /\ \E start \in 0..MaxDays :
          /\ args' = [symbol |-> "rb2401", exchange |-> "SHFE",
                      start |-> start]
          /\ loc' = [req |-> TickRequest("rb2401", "SHFE", start)]
    /\ op' = "download_tick_data"
    /\ pc' = "tick_query"
    /\ UNCHANGED <<result, exc, fault, database, reqLog,
                   saveLog, outFile, dbAtCall>>

\* line 357: the one request sent to the datafeed
DownloadTickQuery ==
    /\ pc = "tick_query"
    /\ reqLog' = Append(reqLog, [to |-> "datafeed.query_tick_history",
                                 req |-> loc.req])
    /\ \/ \E data \in TickAnswers(loc.req) :
             /\ loc' = [req |-> loc.req, data |-> data]
             /\ pc' = "tick_save"
             /\ UNCHANGED <<fault, exc, result>>
       \/ /\ fault' = "ConnectionError"
          /\ Propagate("ConnectionError")
          /\ UNCHANGED loc
    /\ UNCHANGED <<op, args, database, saveLog, outFile, dbAtCall>>

\* one save_tick_data call per tick
DownloadTickSaveMut ==
    /\ pc = "tick_save"
    /\ IF Truthy(loc.data)
       THEN /\ saveLog' = saveLog \o
                    [k \in 1..Len(loc.data.v) |->
                        [fn |-> "save_tick_data", batch |-> <<loc.data.v[k]>>]]
            /\ database' = SaveTickData(database, loc.data.v)
            /\ Return(Len(loc.data.v))
       ELSE /\ Return(0)
            /\ UNCHANGED <<saveLog, database>>
    /\ UNCHANGED <<op, args, loc, fault, reqLog, outFile, dbAtCall>>

\* lines 359-363
DownloadTickSave ==
    /\ pc = "tick_save"
    /\ IF Truthy(loc.data)
       THEN /\ saveLog' = Append(saveLog, [fn |-> "save_tick_data",
                                           batch |-> loc.data.v])
            /\ \E stored \in BOOLEAN :
                  IF stored
                  THEN /\ database' = SaveTickData(database, loc.data.v)
                       /\ Return(Len(loc.data.v))
                       /\ UNCHANGED fault
                  ELSE /\ fault' = "DatabaseError"
                       /\ Propagate("DatabaseError")
                       /\ UNCHANGED database
       ELSE /\ Return(0)
            /\ UNCHANGED <<saveLog, database, fault>>
    /\ UNCHANGED <<op, args, loc, reqLog, outFile, dbAtCall>>

-----------------------------------------------------------------------------

Next ==
    \/ ImportCall
    \/ ImportRow
    \/ ImportEnd
    \/ ImportSave
    \/ ExportCall
    \/ ExportLoad
    \/ ExportOpen
    \/ ExportWrite
    \/ ExportDone
    \/ GetTickOverview
    \/ DownloadBarCall
    \/ DownloadBarQuery
    \/ DownloadBarSave
    \/ DownloadTickCall
    \/ DownloadTickQuery
    \/ DownloadTickSave

Spec == Init /\ [][Next]_vars

-----------------------------------------------------------------------------
(* Vocabulary of the properties *)

Import == op = "import_data_from_csv"
Export == op = "output_data_to_csv"
BarDownload == op = "download_bar_data"
TickDownload == op = "download_tick_data"
Finished == pc \in {"done", "raised"}

ParseErrors == {"KeyError", "ValueError", "TypeError"}

NumericCell(c) == c.t = "str" /\ c.v \in {"1", "2"}

TimestampCell(c, fmt) ==
    /\ c.t = "str"
    /\ c.v \in (IF fmt = "" THEN {"2020-01-01", "2020-01-02"} ELSE {"20200103"})

\* row i of the file has every required column, a timestamp in the format in
\* use and a number in every required column and in every optional column
\* the header has
WellFormedRow(file, fmt, i) ==
    /\ RequiredHeads \subseteq file.fieldnames
    /\ TimestampCell(file.rows[i][datetime_head], fmt)
    /\ \A h \in file.fieldnames \ {datetime_head} : NumericCell(file.rows[i][h])

WellFormed(file, fmt) ==
    \A i \in 1..Len(file.rows) : WellFormedRow(file, fmt, i)

\* the localized timestamp of row i
RowTimestamp(i) ==
    Localize(args.tz_name,
             ParseDatetime(args.file.rows[i][datetime_head],
                           args.datetime_format).val)

\* the number in column h of row i
RowNumber(i, h) == Float(args.file.rows[i][h]).val

\* C1: a well-formed file with N >= 1 rows is imported without a parse
\* failure; the call returns (timestamp of the first row, timestamp of the
\* last row, N), in file order and unsorted, and makes exactly one
\* save_bar_data call, after the reader is exhausted, whose batch is the N
\* records in file order.
C1_ImportReturnsFileOrderStatistics ==
    (Import /\ WellFormed(args.file, args.datetime_format)
            /\ Len(args.file.rows) >= 1) =>
        LET N == Len(args.file.rows)
        IN  /\ pc = "raised" => fault = "DatabaseError"
            /\ pc \in {"import_row", "import_save"} => saveLog = <<>>
            /\ Finished =>
                 /\ Len(saveLog) = 1
                 /\ saveLog[1].fn = "save_bar_data"
                 /\ Len(saveLog[1].batch) = N
                 /\ \A i \in 1..N :
                       /\ saveLog[1].batch[i].datetime = RowTimestamp(i)
                       /\ saveLog[1].batch[i].volume = RowNumber(i, volume_head)
                       /\ saveLog[1].batch[i].close_price =
                              RowNumber(i, close_head)
            /\ pc = "done" =>
                 /\ result = << <<RowTimestamp(1), RowTimestamp(N), N>> >>
                 /\ database.bars = dbAtCall.bars \o saveLog[1].batch

\* a two-row file whose rows are not in time order has been imported
C1_Witness ==
    /\ Import /\ pc = "done"
    /\ Len(args.file.rows) = 2
    /\ result[1][1].wall > result[1][2].wall
    /\ result[1][3] = 2

\* C5: when some row of the file does not parse, the import never reaches
\* its save: it ends with the parse failure propagated, no save_bar_data call
\* made and the store as it was before the call, whatever the position of
\* the bad row.
C5_ParseFailureLeavesStoreUntouched ==
    (Import /\ ~WellFormed(args.file, args.datetime_format)) =>
        /\ pc \in {"import_row", "raised"}
        /\ pc = "raised" => exc \in ParseErrors
        /\ saveLog = <<>>
        /\ database = dbAtCall

\* a parse failure in the second row, after a first row was parsed, with a
\* store that held bars before the call
C5_Witness ==
    /\ Import /\ pc = "raised" /\ exc \in ParseErrors
    /\ loc.i = 1 /\ Len(loc.bars) = 1
    /\ dbAtCall.bars # <<>>

\* C6: a file with a header and no data row yields count 0 with no start and
\* no end, or an explicit precondition failure; the record of a last row
\* that does not exist is never read.
C6_EmptyFileIsDefinedBoundary ==
    (Import /\ args.file.rows = <<>> /\ Finished) =>
        /\ exc # "UnboundLocalError"
        /\ pc = "done" => result = << <<None, None, 0>> >>

\* C10: a file of one or more rows, all well formed, is imported without a
\* parse failure also when its header lacks the turnover or the
\* open-interest column; every saved record has turnover 0 (open interest 0)
\* when the column is absent and the row's own value when it is present.
C10_OptionalColumnsDefaultToZero ==
    Import =>
        /\ (/\ WellFormed(args.file, args.datetime_format)
            /\ Len(args.file.rows) >= 1
            /\ pc = "raised") => fault = "DatabaseError"
        /\ (pc = "done" /\ Len(saveLog) = 1) =>
              \A i \in 1..Len(saveLog[1].batch) :
                 /\ saveLog[1].batch[i].turnover =
                       IF turnover_head \in args.file.fieldnames
                       THEN RowNumber(i, turnover_head) ELSE 0
                 /\ saveLog[1].batch[i].open_interest =
                       IF open_interest_head \in args.file.fieldnames
                       THEN RowNumber(i, open_interest_head) ELSE 0

\* a file without turnover column, with open-interest column, imported
C10_Witness ==
    /\ Import /\ pc = "done"
    /\ turnover_head \notin args.file.fieldnames
    /\ open_interest_head \in args.file.fieldnames
    /\ Len(saveLog[1].batch) = 2
    /\ saveLog[1].batch[2].turnover = 0
    /\ saveLog[1].batch[2].open_interest = 2

-----------------------------------------------------------------------------
(* output_data_to_csv *)

RECURSIVE ExpectedRows(_, _)
ExpectedRows(interval, records) ==
    IF records = <<>> THEN <<>>
    ELSE <<ExportRow(interval, Head(records)).val>>
             \o ExpectedRows(interval, Tail(records))

\* C7: a denied write permission makes the export return False without
\* raising; True is returned only once the header and every loaded record
\* have been written, in the order the store returned them; every other
\* failure (of the load, of the file system, of a record's serialisation) is
\* propagated.
C7_ExportFailureHandling ==
    (Export /\ Finished) =>
        /\ fault = "PermissionError" <=> (pc = "done" /\ result = <<FALSE>>)
        /\ fault \notin {"none", "PermissionError"} =>
              (pc = "raised" /\ exc = fault)
        /\ (pc = "done" /\ result = <<TRUE>>) =>
              /\ fault = "none"
              /\ \A i \in 1..Len(loc.records) :
                    ExportRow(args.interval, loc.records[i]).ok
              /\ loc.records = IF args.interval = TICK THEN database.ticks
                               ELSE database.bars
              /\ outFile = PyList(<<loc.fieldnames>>
                                    \o ExpectedRows(args.interval, loc.records))
        /\ pc = "done" => result \in {<<TRUE>>, <<FALSE>>}
        /\ database = dbAtCall

\* the destination could not be opened for lack of permission, with records
\* loaded and nothing written
C7_Witness ==
    /\ Export /\ pc = "done" /\ result = <<FALSE>>
    /\ fault = "PermissionError"
    /\ Len(loc.records) = 2
    /\ outFile = None

-----------------------------------------------------------------------------
(* get_tick_overview *)

\* C9: get_tick_overview returns an empty list, without raising, when the
\* store has no get_tick_overview, and the store's own list when it has; the
\* store is the same before and after.
C9_TickOverviewCapability ==
    op = "get_tick_overview" =>
        /\ pc = "done"
        /\ result = <<PyList(IF database.has_tick_overview
                             THEN DbTickOverview(database) ELSE <<>>)>>
        /\ database = dbAtCall
        /\ saveLog = <<>>

\* a store that holds ticks and lacks the capability was asked
C9_Witness ==
    /\ op = "get_tick_overview" /\ pc = "done"
    /\ ~database.has_tick_overview
    /\ database.ticks # <<>>
    /\ result = <<PyList(<<>>)>>

-----------------------------------------------------------------------------
(* download_bar_data *)

\* C8: download_bar_data issues exactly one request, spanning [start, now],
\* to the gateway when a contract is registered and has history_data, and to
\* the datafeed otherwise; a non-empty result is saved with exactly one
\* save_bar_data call and its length returned; an empty result makes no
\* store call and returns 0.
C8_BarDownloadOneRequestOneSource ==
    BarDownload =>
        /\ pc = "bar_query" => (reqLog = <<>> /\ saveLog = <<>>)
        /\ pc # "bar_query" =>
              /\ Len(reqLog) = 1
              /\ reqLog[1].req.start = args.start
              /\ reqLog[1].req.end = Now
              /\ reqLog[1].req.interval = args.interval
              /\ reqLog[1].to =
                    IF /\ loc.contract \in Contracts \ {None}
                       /\ loc.contract.history_data
                    THEN "main_engine.query_history"
                    ELSE "datafeed.query_bar_history"
        /\ pc = "done" =>
              IF loc.data # None /\ Len(loc.data.v) > 0
              THEN /\ saveLog = <<[fn |-> "save_bar_data",
                                   batch |-> loc.data.v]>>
                   /\ result = <<Len(loc.data.v)>>
                   /\ database.bars = dbAtCall.bars \o loc.data.v
              ELSE /\ saveLog = <<>>
                   /\ result = <<0>>
                   /\ database = dbAtCall

\* a contract without history support: the datafeed was asked and its two
\* bars saved
C8_Witness ==
    /\ BarDownload /\ pc = "done"
    /\ loc.contract # None /\ ~loc.contract.history_data
    /\ reqLog[1].to = "datafeed.query_bar_history"
    /\ result = <<2>>
    /\ Len(saveLog) = 1

-----------------------------------------------------------------------------
(* download_tick_data *)

\* the window size the specification gives the tick download
WindowDays == 10

Min(a, b) == IF a <= b THEN a ELSE b

\* the partition of [floor, now] into windows of at most WindowDays days,
\* each floor the previous ceiling, ending when the floor reaches now
RECURSIVE TickWindows(_, _)
TickWindows(floor, now) ==
    IF floor >= now THEN <<>>
    ELSE LET ceiling == Min(floor + WindowDays, now)
         IN  <<[start |-> floor, end |-> ceiling]>> \o TickWindows(ceiling, now)

\* the ranges requested so far, in order
RequestedRanges ==
    [i \in 1..Len(reqLog) |->
        [start |-> reqLog[i].req.start, end |-> reqLog[i].req.end]]

\* the ticks of a result that fall in a window (the last window is closed)
RECURSIVE TicksIn(_, _)
TicksIn(ticks, w) ==
    IF ticks = <<>> THEN <<>>
    ELSE LET d == Head(ticks).datetime.wall
             in == w.start <= d /\ (d < w.end \/ (d = w.end /\ w.end = Now))
         IN  (IF in THEN <<Head(ticks)>> ELSE <<>>) \o TicksIn(Tail(ticks), w)

\* the ticks the feed returned to the call, none before it has answered
ResultTicks ==
    IF "data" \in DOMAIN loc /\ loc.data.t = "list" THEN loc.data.v ELSE <<>>

WindowCounts(windows) ==
    [j \in 1..Len(windows) |-> Len(TicksIn(ResultTicks, windows[j]))]

\* the ticks handed to save_tick_data so far, in order
RECURSIVE Batches(_)
Batches(log) ==
    IF log = <<>> THEN <<>> ELSE Head(log).batch \o Batches(Tail(log))

=============================================================================
